---------------------------- MODULE Spec2Model ----------------------------
(***************************************************************************)
(* Model of the Grover word-search service.                                *)
(*                                                                         *)
(*   search_application_server.py   create_db_oracle, create_query_oracle, *)
(*                                  SearchApplication, find_position       *)
(*   run_fake_backend.py            port_already_in_use, main,             *)
(*                                  start_cpu_backend                      *)
(*                                                                         *)
(* Three specifications share the module:                                  *)
(*   Spec          one SearchApplication instance driven by a caller       *)
(*   SpecService   the /search_word handler, one request at a time         *)
(*   SpecLauncher  several run_fake_backend.py processes on one host       *)
(*                                                                         *)
(* Strings are sequences of one-character strings.  The quantum library    *)
(* (QuantumDictionary, tag_state, auto_uncompute, grovers_alg,             *)
(* get_measurement) is modelled on computational-basis states: the label   *)
(* register is a sequence of k bits, a marker evaluation is load / compare *)
(* / unload, and a measurement is a choice among the indices that can be   *)
(* observed.                                                               *)
(***************************************************************************)
EXTENDS Integers, Sequences, FiniteSets

\* ------------------------------------------------------------------ bounds
MaxN == 2           \* index widths 1..MaxN
MaxK == 2           \* label widths 1..MaxK
MaxTextLen == 3     \* characters in an input text
MaxWordLen == 1     \* characters in a query word
NumLaunchers == 3   \* concurrent run_fake_backend.py processes

\* --------------------------------------------------------------- constants
winner_state_amount == 1
shots == 1
ServiceN == 3
ServiceK == 6
HTTP_BAD_REQUEST == 400
NOT_FOUND == -1

\* ---------------------------------------------------------------- alphabet
Letters == {"a", "b"}
Punctuation == {"."}
Chars == Letters \cup Punctuation \cup {" "}

SeqsUpTo(S, m) == UNION {[1..j -> S] : j \in 0..m}

Texts == SeqsUpTo(Chars, MaxTextLen)
QueryWords == SeqsUpTo(Letters, MaxWordLen)

None == << >>

\* the hash seed of the process considered (PYTHONHASHSEED)
HashSeeds == {1}

Min(a, b) == IF a < b THEN a ELSE b

RECURSIVE Pow2(_)
Pow2(e) == IF e = 0 THEN 1 ELSE 2 * Pow2(e - 1)

\* ------------------------------------------------------- labeling function
\* hash(x) of a str: 0 for the empty string, otherwise a signed value that
\* depends on the process's hash seed.
RECURSIVE WordValue(_)
WordValue(w) ==
    IF w = << >> THEN 0
    ELSE 3 * WordValue(SubSeq(w, 1, Len(w) - 1))
         + (IF w[Len(w)] = "a" THEN 1 ELSE 2)

PyHash(seed, w) ==
    IF w = << >> THEN 0
    ELSE ((WordValue(w) * (333 + 6 * seed) + 29 * seed + 100) % 1024) - 512

\* the binary digits of m >= 0, most significant first
RECURSIVE Bits(_)
Bits(m) ==
    IF m < 2 THEN << (IF m = 1 THEN "1" ELSE "0") >>
    ELSE Bits(m \div 2) \o << (IF m % 2 = 1 THEN "1" ELSE "0") >>

\* bin(h)
Bin(h) ==
    IF h < 0 THEN << "-", "0", "b" >> \o Bits(0 - h)
    ELSE << "0", "b" >> \o Bits(h)

\* s[-j:] for j >= 1
Suffix(s, j) ==
    IF Len(s) <= j THEN s ELSE SubSeq(s, Len(s) - j + 1, Len(s))

\* bin(hash(x))[-k:] for a hash value h
LabelOfHash(h, kk) == Suffix(Bin(h), kk)

labeling(seed, kk, x) == LabelOfHash(PyHash(seed, x), kk)

\* ------------------------------------------------------------- update_text
\* text.translate(str.maketrans('', '', string.punctuation))
Translate(text) == SelectSeq(text, LAMBDA c : c \notin Punctuation)

\* s.split(" "): every single space separates, empty words are kept
RECURSIVE SplitFrom(_, _, _)
SplitFrom(s, words, cur) ==
    IF s = << >> THEN Append(words, cur)
    ELSE IF Head(s) = " " THEN SplitFrom(Tail(s), Append(words, cur), << >>)
    ELSE SplitFrom(Tail(s), words, Append(cur, Head(s)))

Split(s) == SplitFrom(s, << >>, << >>)

\* seq[:m]
TakeNoLimit(seq, m) == seq
Take(seq, m) == SubSeq(seq, 1, Min(Len(seq), m))

\* self.data after update_text(text)
CollectionOf(text, nn) == Take(Split(Translate(text)), Pow2(nn))

\* the entries create_db_oracle stores: qd[i] = labeling(db[i])
create_db_oracle(db, seed, kk) ==
    [i \in 1..Len(db) |-> labeling(seed, kk, db[i])]

\* ---------------------------------------------------- QuantumDictionary
\* a label the k-bit QuantumVariable can encode: exactly k binary digits
Encodable(label, kk) ==
    /\ Len(label) = kk
    /\ \A i \in 1..Len(label) : label[i] \in {"0", "1"}

BitsOf(label) == [i \in 1..Len(label) |-> IF label[i] = "1" THEN 1 ELSE 0]

Zeros(kk) == [i \in 1..kk |-> 0]

Xor(r, v) == [i \in 1..Len(r) |-> (r[i] + v[i]) % 2]

\* what qd[index_qf] loads for basis state idx: the stored entry, and the
\* zero label for a key that was never set
Lookup(qd, idx, kk) ==
    IF idx < Len(qd) THEN BitsOf(qd[idx + 1]) ELSE Zeros(kk)

\* ---------------------------------------------------------- query_oracle
\* why building the marker circuit raises, "" when it does not:
\* db_oracle is None before update_text; the encoder rejects a stored or a
\* target label that is not k binary digits
MarkerError(qd, seed, kk, q) ==
    IF qd = None THEN "TypeError"
    ELSE IF \E i \in 1..Len(qd) : ~Encodable(qd[i], kk) THEN "EncoderError"
    ELSE IF ~Encodable(labeling(seed, kk, q), kk) THEN "EncoderError"
    ELSE ""

\* tag_state({label_qv : label_bitstring}): the phase is applied when the
\* label register holds the target
tag_state(reg, target) == reg = target

\* auto_uncompute: the load is applied a second time
UncomputeSkipped(reg, loaded) == reg
Uncompute(reg, loaded) == Xor(reg, loaded)

\* one evaluation of query_oracle on basis state idx, label register at zero
query_oracle(qd, seed, kk, idx, q) ==
    LET label_bitstring == BitsOf(labeling(seed, kk, q))
        loaded == Lookup(qd, idx, kk)
        label_qv == Xor(Zeros(kk), loaded)
    IN  [index |-> idx,
         phase |-> tag_state(label_qv, label_bitstring),
         label |-> Uncompute(label_qv, loaded)]

Indices(nn) == 0..(Pow2(nn) - 1)

Marked(qd, seed, nn, kk, q) ==
    {idx \in Indices(nn) : query_oracle(qd, seed, kk, idx, q).phase}

\* ------------------------------------------- grovers_alg, get_measurement
\* exact amplification for winner_state_amount marked states: with that many
\* marked states and no noise only a marked index is observed; otherwise any
\* index may be
Observable(marked, nn, quiet) ==
    IF quiet /\ Cardinality(marked) = winner_state_amount
    THEN marked ELSE Indices(nn)

NoText == [given |-> FALSE, chars |-> << >>]
NoOutcome == [kind |-> "none", value |-> 0, err |-> ""]
Returned(v) == [kind |-> "ok", value |-> v, err |-> ""]
Raised(e) == [kind |-> "raise", value |-> 0, err |-> e]

\* index_qf.get_measurement(backend, shots=1): one sample, or the backend's
\* failure
get_measurement(up, observable) ==
    IF up THEN {Returned(r) : r \in observable}
    ELSE {Raised("BackendUnavailable")}

\* search_word has no try/except: what the backend call gave is what the
\* caller gets
SwallowFailure(reply) ==
    IF reply.kind = "raise" THEN Returned(NOT_FOUND) ELSE reply
ReturnToCaller(reply) == reply

\* -------------------------------------------------------------------- state
VARIABLES
    n,              \* SearchApplication.n
    k,              \* SearchApplication.k
    hashSeed,       \* the hash seed of the process the instance lives in
    noiseless,      \* whether the instance's backend is free of noise
    backendUp,      \* whether the backend answers a submission
    text,           \* the argument of the update_text just made (not kept
                    \* once a search_word has begun)
    data,           \* SearchApplication.data (None before update_text)
    db_oracle,      \* the entries behind SearchApplication.db_oracle
    pc,             \* the stage of the search_word in progress; Idle or
                    \* OracleReady between calls
    query_object,   \* the argument of the search_word in progress
    submissions,    \* shot counts that search_word sent to the backend
    outcome,        \* what that search_word gives its caller
    prev,           \* whether the search_word before it failed at the backend
    svc,            \* find_position: the last request and its response
    lpc,            \* run_fake_backend.py: each process's position
    port,           \* 127.0.0.1:42069: who holds it (0: nobody)
    probe,          \* which process's probe socket holds the port (0: none)
    qpu_data        \* how many times qpu_data.json was written

engineVars == << n, k, hashSeed, noiseless, text, data, db_oracle, pc,
                 query_object, submissions, outcome, prev >>
launcherVars == << lpc, port, probe, qpu_data >>
vars == << n, k, hashSeed, noiseless, backendUp, text, data, db_oracle, pc,
           query_object, submissions, outcome, prev, svc, lpc, port, probe,
           qpu_data >>

\* the engine's own fields: what a failed query must leave alone
engine == << n, k, hashSeed, data, db_oracle >>

Launchers == 1..NumLaunchers

NoRequest ==
    [has_body |-> FALSE, word |-> "absent", string |-> "absent",
     w |-> << >>, s |-> << >>,
     status |-> 0, position |-> 0, error |-> "",
     constructed |-> FALSE, updated |-> FALSE, searched |-> FALSE,
     submitted |-> 0]

\* SearchApplication.__init__: data and db_oracle are None
InitEngine ==
    /\ n \in 1..MaxN
    /\ k \in 1..MaxK
    /\ hashSeed \in HashSeeds
    /\ noiseless \in BOOLEAN
    /\ text = NoText
    /\ data = None
    /\ db_oracle = None
    /\ pc = "Idle"
    /\ query_object = << >>
    /\ submissions = << >>
    /\ outcome = NoOutcome
    /\ prev = FALSE

InitRest ==
    /\ backendUp = TRUE
    /\ svc = NoRequest
    /\ lpc = [p \in Launchers |-> "main"]
    /\ port = 0
    /\ probe = 0
    /\ qpu_data = 0

Init == InitEngine /\ InitRest

\* the caller holds control: no call is in progress
CallerTurn == pc \in {"Idle", "OracleReady"}

\* ------------------------------------------------------ SearchApplication
\* update_text(text)
update_text(t) ==
    /\ CallerTurn
    /\ text' = [given |-> TRUE, chars |-> t]
    /\ data' = CollectionOf(t, n)
    /\ db_oracle' = create_db_oracle(CollectionOf(t, n), hashSeed, k)
    /\ pc' = "OracleReady"
    /\ UNCHANGED << n, k, hashSeed, noiseless, backendUp, query_object,
                    submissions, outcome, prev, svc, launcherVars >>

\* search_word, line 111: create_query_oracle(self.db_oracle, self.labeling)
search_word_begin(q) ==
    /\ CallerTurn
    /\ query_object' = q
    /\ pc' = "MarkerBuilt"
    /\ text' = NoText
    /\ UNCHANGED << n, k, hashSeed, noiseless, backendUp, data, db_oracle,
                    submissions, outcome, prev, svc, launcherVars >>

\* lines 114-116: the index register is allocated and grovers_alg derives the
\* iteration count from n and winner_state_amount
compute_iterations ==
    /\ pc = "MarkerBuilt"
    /\ pc' = "IterationsComputed"
    /\ UNCHANGED << n, k, hashSeed, noiseless, backendUp, text, data,
                    db_oracle, query_object, submissions, outcome, prev, svc,
                    launcherVars >>

\* lines 116-120: grovers_alg applies the marker and the diffuser; the first
\* marker call raises when the circuit cannot be built
apply_iterations ==
    /\ pc = "IterationsComputed"
    /\ LET e == MarkerError(db_oracle, hashSeed, k, query_object)
       IN  IF e = ""
           THEN pc' = "CircuitPrepared" /\ outcome' = outcome
           ELSE pc' = "Raised" /\ outcome' = ReturnToCaller(Raised(e))
    /\ UNCHANGED << n, k, hashSeed, noiseless, backendUp, text, data,
                    db_oracle, query_object, submissions, prev, svc,
                    launcherVars >>

\* line 121: get_measurement sends the circuit with shots=1 and blocks
submit ==
    /\ pc = "CircuitPrepared"
    /\ pc' = "Submitted"
    /\ submissions' = Append(submissions, shots)
    /\ UNCHANGED << n, k, hashSeed, noiseless, backendUp, text, data,
                    db_oracle, query_object, outcome, prev, svc,
                    launcherVars >>

\* lines 121-122: the backend's answer, or its failure, ends the call
backend_reply ==
    /\ pc = "Submitted"
    /\ \E reply \in get_measurement(backendUp,
                      Observable(Marked(db_oracle, hashSeed, n, k,
                                        query_object), n, noiseless)) :
          /\ outcome' = ReturnToCaller(reply)
          /\ pc' = IF ReturnToCaller(reply).kind = "ok"
                   THEN "ResultExtracted" ELSE "Raised"
    /\ UNCHANGED << n, k, hashSeed, noiseless, backendUp, text, data,
                    db_oracle, query_object, submissions, prev, svc,
                    launcherVars >>

\* line 122, or the exception leaving search_word: control is back with the
\* caller, who has the result; the call's frame is gone
return_to_caller ==
    /\ pc \in {"ResultExtracted", "Raised"}
    /\ pc' = IF db_oracle = None THEN "Idle" ELSE "OracleReady"
    /\ prev' = (outcome.err = "BackendUnavailable")
    /\ query_object' = << >>
    /\ submissions' = << >>
    /\ outcome' = NoOutcome
    /\ UNCHANGED << n, k, hashSeed, noiseless, backendUp, text, data,
                    db_oracle, svc, launcherVars >>

\* the backend process goes away or comes back
backend_toggle ==
    /\ backendUp' = ~backendUp
    /\ UNCHANGED << engineVars, svc, launcherVars >>

Next ==
    \/ \E t \in Texts : update_text(t)
    \/ \E q \in QueryWords : search_word_begin(q)
    \/ compute_iterations
    \/ apply_iterations
    \/ submit
    \/ backend_reply
    \/ return_to_caller
    \/ backend_toggle

Spec == Init /\ [][Next]_vars

\* ------------------------------------------------------------ find_position
\* the JSON bodies considered: no body, or an object whose "word" and
\* "string" are each absent, a str, or a number
FieldKinds == {"absent", "str", "num"}

Bodies ==
    {[has_body |-> FALSE, word |-> "absent", string |-> "absent",
      w |-> << >>, s |-> << >>]}
    \cup
    UNION {{[has_body |-> TRUE, word |-> wk, string |-> sk, w |-> w, s |-> s] :
              w \in (IF wk = "str" THEN QueryWords ELSE {<< >>}),
              s \in (IF sk = "str" THEN Texts ELSE {<< >>})} :
           wk \in FieldKinds, sk \in FieldKinds}

\* line 129: not data or 'word' not in data or 'string' not in data
Rejected(b) == ~b.has_body \/ b.word = "absent" \/ b.string = "absent"

Response(b, st, pos, e, c, u, sw, sub) ==
    [has_body |-> b.has_body, word |-> b.word, string |-> b.string,
     w |-> b.w, s |-> b.s, status |-> st, position |-> pos, error |-> e,
     constructed |-> c, updated |-> u, searched |-> sw, submitted |-> sub]

\* lines 150-164: the JSON answer for what search_word returned
Answer(b, r) ==
    IF r.kind = "raise"
    THEN Response(b, 500, 0, r.err, TRUE, TRUE, TRUE,
                  IF r.err = "BackendUnavailable" THEN shots ELSE 0)
    ELSE IF r.value = NOT_FOUND
    THEN Response(b, 200, NOT_FOUND, "not found", TRUE, TRUE, TRUE, shots)
    ELSE Response(b, 200, r.value, "", TRUE, TRUE, TRUE, shots)

\* every response the handler can give to body b
find_position_results(b, seed, up) ==
    IF Rejected(b)
    THEN {Response(b, HTTP_BAD_REQUEST, 0, "missing keys",
                   FALSE, FALSE, FALSE, 0)}
    ELSE IF b.string # "str"
    \* text.translate on a value that is no str
    THEN {Response(b, 500, 0, "AttributeError", TRUE, TRUE, FALSE, 0)}
    ELSE LET qd == create_db_oracle(CollectionOf(b.s, ServiceN), seed,
                                    ServiceK)
             \* a number sent as "word" is the int 5, whose hash is 5
             target == IF b.word = "str" THEN labeling(seed, ServiceK, b.w)
                       ELSE LabelOfHash(5, ServiceK)
             e == IF \E i \in 1..Len(qd) : ~Encodable(qd[i], ServiceK)
                  THEN "EncoderError"
                  ELSE IF ~Encodable(target, ServiceK) THEN "EncoderError"
                  ELSE ""
         IN  IF e # "" THEN {Answer(b, ReturnToCaller(Raised(e)))}
             ELSE {Answer(b, ReturnToCaller(reply)) :
                     reply \in get_measurement(up,
                        Observable({idx \in Indices(ServiceN) :
                                      tag_state(Lookup(qd, idx, ServiceK),
                                                BitsOf(target))},
                                   ServiceN, FALSE))}

find_position(b) ==
    /\ svc' \in find_position_results(b, hashSeed, backendUp)
    /\ UNCHANGED << engineVars, backendUp, launcherVars >>

\* the engine of a request lives inside the handler; between requests only
\* the process (its hash seed) and the backend exist
InitProcess ==
    /\ n = ServiceN
    /\ k = ServiceK
    /\ hashSeed \in HashSeeds
    /\ noiseless = FALSE
    /\ text = NoText
    /\ data = None
    /\ db_oracle = None
    /\ pc = "Idle"
    /\ query_object = << >>
    /\ submissions = << >>
    /\ outcome = NoOutcome
    /\ prev = FALSE
    /\ InitRest

NextService ==
    \/ \E b \in Bodies : find_position(b)
    \/ backend_toggle

SpecService == InitProcess /\ [][NextService]_vars

\* -------------------------------------------------------- run_fake_backend
PortFree == port = 0 /\ probe = 0

\* port_already_in_use, s.bind: the probe socket takes the port, or the bind
\* fails and main returns
probe_bind(p) ==
    /\ lpc[p] = "main"
    /\ IF PortFree
       THEN probe' = p /\ lpc' = [lpc EXCEPT ![p] = "probing"]
       ELSE probe' = probe /\ lpc' = [lpc EXCEPT ![p] = "skipped"]
    /\ UNCHANGED << engineVars, backendUp, svc, port, qpu_data >>

\* port_already_in_use, leaving the with block: the probe socket is closed
probe_release(p) ==
    /\ lpc[p] = "probing"
    /\ probe' = 0
    /\ lpc' = [lpc EXCEPT ![p] = "probed_free"]
    /\ UNCHANGED << engineVars, backendUp, svc, port, qpu_data >>

\* start_cpu_backend, lines 39-53: the simulator is built and qpu_data.json
\* is written
write_calibration(p) ==
    /\ lpc[p] = "probed_free"
    /\ qpu_data' = qpu_data + 1
    /\ lpc' = [lpc EXCEPT ![p] = "calibrated"]
    /\ UNCHANGED << engineVars, backendUp, svc, port, probe >>

\* start_cpu_backend, line 56: the backend server binds the port, or cannot
start_server(p) ==
    /\ lpc[p] = "calibrated"
    /\ IF PortFree
       THEN port' = p /\ lpc' = [lpc EXCEPT ![p] = "serving"]
       ELSE port' = port /\ lpc' = [lpc EXCEPT ![p] = "bind_failed"]
    /\ UNCHANGED << engineVars, backendUp, svc, probe, qpu_data >>

NextLauncher ==
    \E p \in Launchers :
        \/ probe_bind(p)
        \/ probe_release(p)
        \/ write_calibration(p)
        \/ start_server(p)

SpecLauncher == InitProcess /\ [][NextLauncher]_vars

\* ================================================================== claims
Finished == pc \in {"ResultExtracted", "Raised"}

\* the positions (from 1) at which the collection holds item q
StoredAt(q) == {i \in 1..Len(data) : data[i] = q}

DistinctLabels ==
    \A i, j \in 1..Len(db_oracle) : i # j => db_oracle[i] # db_oracle[j]

\* the k-character label the database oracle gives for index idx
StoredLabel(idx) ==
    IF idx < Len(db_oracle) THEN db_oracle[idx + 1] ELSE [i \in 1..k |-> "0"]

\* C1: on a noiseless backend that answers, a search for an item stored at
\* exactly one index of a collection with pairwise-distinct labels returns
\* exactly that index.
C1_ExactSuccess ==
    ( /\ Finished
      /\ data # None
      /\ DistinctLabels
      /\ noiseless
      /\ outcome.err # "BackendUnavailable"
      /\ Cardinality(StoredAt(query_object)) = 1 )
    => \A i \in StoredAt(query_object) : outcome = Returned(i - 1)

RECURSIVE JoinWords(_)
JoinWords(ws) ==
    IF ws = << >> THEN << >>
    ELSE IF Len(ws) = 1 THEN ws[1]
    ELSE ws[1] \o << " " >> \o JoinWords(Tail(ws))

Stripped(t) == SelectSeq(t, LAMBDA c : c \in Letters \cup {" "})

WordCount(t) == Cardinality({i \in 1..Len(Stripped(t)) : Stripped(t)[i] = " "}) + 1

\* C3: after update_text(text) the collection is the first min(L, 2^n) words
\* of the punctuation-stripped, space-split text in their order, no error is
\* raised, and the database oracle holds labeling(collection[i]) at every
\* position of the collection.
C3_Truncation ==
    text.given =>
      LET joined == JoinWords(data)
          clean == Stripped(text.chars)
      IN  /\ pc = "OracleReady"
          /\ Len(data) = Min(WordCount(text.chars), Pow2(n))
          /\ \A i \in 1..Len(data) :
                \A j \in 1..Len(data[i]) : data[i][j] \in Letters
          /\ Len(joined) <= Len(clean)
          /\ SubSeq(clean, 1, Len(joined)) = joined
          /\ IF Len(data) = WordCount(text.chars)
             THEN Len(joined) = Len(clean)
             ELSE clean[Len(joined) + 1] = " "
          /\ outcome.kind # "raise"
          /\ Len(db_oracle) = Len(data)
          /\ \A i \in 1..Len(data) :
                db_oracle[i] = labeling(hashSeed, k, data[i])

\* a text with more words than 2^n, its last word, which has letters, dropped
C3_Witness ==
    /\ text.given
    /\ WordCount(text.chars) > Pow2(n)
    /\ Len(JoinWords(data)) + 1 < Len(Stripped(text.chars))
    /\ Stripped(text.chars)[Len(Stripped(text.chars))] \in Letters

\* C4: a marker is built, and something is submitted to the backend, only
\* when update_text has built the database oracle before.
C4_OracleBeforeMarker ==
    ( \/ pc \in {"MarkerBuilt", "IterationsComputed", "CircuitPrepared",
                 "Submitted"}
      \/ submissions # << >> )
    => db_oracle # None

\* C5: when the backend call of search_word fails, the caller gets that
\* failure itself, n, k, labeling, data and db_oracle are as before the
\* call, and once the failure has reached the caller the instance is between
\* calls with the same fields.
C5_BackendFailure ==
    [][ /\ (pc = "Submitted" /\ ~backendUp /\ pc' # "Submitted")
           => /\ outcome' = Raised("BackendUnavailable")
              /\ pc' = "Raised"
              /\ engine' = engine
        /\ (pc = "Raised" /\ outcome.err = "BackendUnavailable"
                          /\ pc' # "Raised")
           => /\ CallerTurn'
              /\ prev'
              /\ engine' = engine ]_vars

\* a search that succeeds on the instance whose previous search failed at
\* the backend
C5_Witness ==
    /\ pc = "ResultExtracted"
    /\ prev
    /\ noiseless
    /\ DistinctLabels
    /\ Len(data) = Pow2(n)
    /\ \E i \in StoredAt(query_object) : outcome = Returned(i - 1)

\* a request body that is missing or whose "word" or "string" is missing or
\* no str
Malformed(r) == ~r.has_body \/ r.word # "str" \/ r.string # "str"

\* C6: a malformed request gets status 400 and never reaches the core: no
\* SearchApplication is constructed, update_text and search_word are not
\* called, nothing is submitted.
C6_MalformedRejected ==
    (svc.status # 0 /\ Malformed(svc))
    => /\ svc.status = HTTP_BAD_REQUEST
       /\ ~svc.constructed
       /\ ~svc.updated
       /\ ~svc.searched
       /\ svc.submitted = 0

\* C7: a search for an item whose label equals no stored label of the
\* collection completes when the backend answers, and returns an index in
\* 0..2^n-1, never -1 and never an exception.
C7_AbsentReturnsIndex ==
    ( /\ Finished
      /\ data # None
      /\ \A i \in 1..Len(db_oracle) :
            db_oracle[i] # labeling(hashSeed, k, query_object)
      /\ outcome.err # "BackendUnavailable" )
    => /\ outcome.kind = "ok"
       /\ outcome.value \in Indices(n)
       /\ outcome.value # NOT_FOUND

\* C8: every label is exactly k characters, each "0" or "1", and building
\* the database oracle again from the same collection gives the same
\* mapping.
C8_FixedWidthLabel ==
    /\ \A i \in 1..Len(db_oracle) : Encodable(db_oracle[i], k)
    /\ pc \notin {"Idle", "OracleReady"}
          => Encodable(labeling(hashSeed, k, query_object), k)
    /\ db_oracle = create_db_oracle(data, hashSeed, k)

\* C9: every call of search_word makes exactly one request to the backend,
\* with shots = 1, and none before the circuit is prepared.
C9_OneSubmission ==
    /\ Finished => submissions = << shots >>
    /\ pc \in {"MarkerBuilt", "IterationsComputed", "CircuitPrepared"}
          => submissions = << >>
    /\ pc = "Submitted" => submissions = << shots >>

\* C10: no launcher enters start_cpu_backend while a backend instance holds
\* the endpoint.
C10_NoStartWhileBound ==
    [][ \A p \in Launchers :
          (lpc[p] = "probed_free" /\ lpc'[p] = "calibrated") => port = 0 ]_vars

=============================================================================
